---- MODULE Spec2Model ----
(***************************************************************************)
(* Model of src/src/dooray_client.py: the cookie cache (_cached_cookies,   *)
(* _cookie_cached_at), the asyncio lock that guards the login flow         *)
(* (_cookie_lock), _get_cookies, _call_attendance_api and                  *)
(* request_attendance.                                                     *)
(*                                                                         *)
(* The code runs on one asyncio event loop, so a coroutine runs without    *)
(* interruption from one await that suspends to the next.  Every action    *)
(* below is one such segment.  The suspension points are: waiting for      *)
(* _cookie_lock, the Playwright login flow, and the httpx POST.            *)
(***************************************************************************)
EXTENDS Integers, Sequences, FiniteSets, TLC

\* ------------------------------------------------------------------ bounds
NumTasks == 2          \* coroutines that may be running at the same time
MaxCalls == 3          \* calls issued over one run
MaxTicks == 2          \* clock advances over one run
MaxClears == 2         \* direct invalidations in a row

\* ------------------------------------------------------ program constants
COOKIE_CACHE_TTL == 1800      \* _COOKIE_CACHE_TTL = 30 * 60
EXCERPT_LEN == 500            \* response.text[:500]
StartTime == 1                \* time.time() is positive when the module loads

Tasks == 1..NumTasks
NoTask == 0
NoCookies == 0                \* _cached_cookies = None
NoStatus == 0                 \* the result has no "status_code" key
NoText == -1                  \* the result has no "response_text" key

Statuses == {200, 401, 403, 500}
BodyLens == {EXCERPT_LEN, EXCERPT_LEN + 1}
NetErrors == {"timeout", "request_error"}
TickSteps == {COOKIE_CACHE_TTL \div 2}
SoloTickSteps == {COOKIE_CACHE_TTL \div 2, COOKIE_CACHE_TTL + COOKIE_CACHE_TTL \div 2}
Usernames == {"", "user"}
Passwords == {"", "secret"}
DefaultSubdomain == "uniai"   \* os.getenv("DOORAY_SUBDOMAIN", "uniai").strip() or "uniai"
Subdomains == {"", DefaultSubdomain}
NoRoute == "none"             \* the call does not come from an HTTP handler
Routes == {"/dooray", "/enter", "/leave", "/qr/enter", "/qr/leave"}
\* what the body of a request says: nothing, something that does not fit
\* DoorayCommandRequest, or a command
Commands == {"empty", "malformed", "/enter", "/leave", "/unknown"}
\* what header.resultMessage is: missing, a text without "완료", a text with it
ResultMessages == {"absent", "plain", "marker"}
\* the "header" member of a JSON object payload: missing, a JSON value that is
\* not an object, or an object
NoHeader == [kind |-> "absent", isSuccessful |-> FALSE, resultMessage |-> "absent"]
Headers ==
  {NoHeader, [kind |-> "other", isSuccessful |-> FALSE, resultMessage |-> "absent"]}
    \cup {[kind |-> "object", isSuccessful |-> ok, resultMessage |-> m] :
            ok \in BOOLEAN, m \in ResultMessages}

VARIABLES
  now,             \* time.time()
  ticks,           \* clock advances so far
  calls,           \* calls issued so far
  username,        \* settings.DOORAY_LOGIN_USERNAME
  password,        \* settings.DOORAY_LOGIN_PASSWORD
  subdomain,       \* settings.DOORAY_SUBDOMAIN
  cachedCookies,   \* _cached_cookies: NoCookies or the id of the login that made them
  cookieCachedAt,  \* _cookie_cached_at
  lockHolder,      \* the task inside "async with _cookie_lock", or NoTask
  lockWaiters,     \* asyncio.Lock._waiters, first in first out
  loginSeq,        \* _login_and_get_cookies invocations so far (each launches a browser)
  inFlight,        \* tasks whose _login_and_get_cookies invocation is running
  pc,              \* where each task is suspended
  kind,            \* "req": request_attendance, "get": a direct _get_cookies call
  force,           \* the force_refresh argument of the task's current _get_cookies call
  attempt,         \* 1 before the retry of request_attendance, 2 after
  cookie_dict,     \* the cookies _get_cookies returned to the task
  result,          \* what the call returned
  log,             \* per task: the logins, POSTs, responses and invalidations it did
  epoch,           \* per task: loginSeq right after the call's first segment
  awaited,         \* history, per task inside _get_cookies: the login flow that
                   \* was in progress when the call arrived (0: none)
  loginFailed,     \* history: some login flow has raised
  authFailed,      \* history: some POST has been answered 401 or 403
  cleared,         \* history: direct _invalidate_cookie_cache calls since the
                   \* last time _get_cookies stored a session
  unread,          \* history, per task, kept for a sequential caller only: the
                   \* log positions of the responses whose body is not JSON
                   \* and was not parsed
  route,           \* per task: the HTTP route of api.py that is being served
  reply,           \* per task: what the HTTP handler answers
  header           \* per task, kept for the HTTP entry points only: the
                   \* "header" member of the payload in result

vars == <<now, ticks, calls, username, password, subdomain, cachedCookies, cookieCachedAt,
          lockHolder, lockWaiters, loginSeq, inFlight, pc, kind, force, attempt,
          cookie_dict, result, log, epoch, awaited, loginFailed, authFailed,
          cleared, unread, route, reply, header>>

\* ------------------------------------------------------------ results
NoResult == [error |-> "pending", status_code |-> NoStatus,
             response_text |-> NoText, payload |-> "none"]

ErrorResult(msg) == [error |-> msg, status_code |-> NoStatus,
                     response_text |-> NoText, payload |-> "none"]

\* mutant of Min: response.text without the [:500] slice
TakesFirst(a, b) == a

Min(a, b) == IF a < b THEN a ELSE b

\* mutant of IsCookieValid: the age comparison reversed
IsCookieValidReversed(cc, at, t) ==
  IF cc = NoCookies THEN FALSE ELSE (t - at) > COOKIE_CACHE_TTL

\* mutant of IsCookieValid: a session of age exactly TTL still counts as valid
IsCookieValidInclusive(cc, at, t) ==
  IF cc = NoCookies THEN FALSE ELSE (t - at) <= COOKIE_CACHE_TTL

\* _is_cookie_valid, on cache (cc, at) at time t
IsCookieValid(cc, at, t) ==
  IF cc = NoCookies THEN FALSE ELSE (t - at) < COOKIE_CACHE_TTL

\* mutant of UsesCache: the force_refresh test inverted
UsesCacheInverted(f, cc, at, t) == f /\ (cc # NoCookies /\ (t - at) < COOKIE_CACHE_TTL)

\* "if not force_refresh and _is_cookie_valid(): return _cached_cookies"
UsesCache(f, cc, at, t) == ~f /\ IsCookieValid(cc, at, t)

\* mutant of LockFree: _get_cookies runs its body without taking _cookie_lock
LockFreeAlways == TRUE

\* asyncio.Lock.acquire takes the lock at once only when nobody holds or awaits it
LockFree == lockHolder = NoTask /\ lockWaiters = <<>>

\* "if response.status_code in (401, 403)"
IsAuthFailure(st) == st \in {401, 403}

\* mutant of SettingsError: validate() without its subdomain test
SettingsErrorNoSubdomain == username = "" \/ password = ""

\* Settings.validate raises, so _ensure_settings returns a message
SettingsError == username = "" \/ password = "" \/ subdomain = ""

\* "if not username or not password: raise ValueError"
CredentialsMissing == username = "" \/ password = ""

\* _call_attendance_api after the response arrived.  raises: the TypeError of
\* result["status_code"] = ... on a JSON body that is not an object.
CallAttendanceApi(st, body, len) ==
  IF IsAuthFailure(st)
  THEN [result |-> ErrorResult("auth"), success |-> FALSE, raises |-> FALSE]
  ELSE LET parsed == IF body = "text"
                     THEN [error |-> "json", status_code |-> st,
                           response_text |-> Min(len, EXCERPT_LEN), payload |-> "none"]
                     ELSE [error |-> "", status_code |-> NoStatus,
                           response_text |-> NoText, payload |-> body]
       IN IF st # 200
          THEN IF parsed.payload = "other"
               THEN [result |-> ErrorResult("exception"), success |-> FALSE, raises |-> TRUE]
               ELSE [result |-> [parsed EXCEPT !.status_code = st],
                     success |-> TRUE, raises |-> FALSE]
          ELSE [result |-> parsed, success |-> TRUE, raises |-> FALSE]

\* mutant of Retries: the retry branch loops while authentication fails
RetriesAlways(n, success) == ~success

\* mutant of Retries: the first attempt is retried whatever its outcome
RetriesAnyOutcome(n, success) == n = 1

\* "if not success:" in request_attendance: only the first attempt retries
Retries(n, success) == n = 1 /\ ~success

\* mutant of Catches: request_attendance without its except clauses
CatchesNothing(k) == FALSE

\* request_attendance wraps its body in try/except Exception; a direct caller
\* of _get_cookies has no handler around it
Catches(k) == k = "req"

\* mutant of ExceptResult: the except clauses return a result without "error"
ExceptResultSilent(exc) == [NoResult EXCEPT !.error = ""]

\* the except clauses of request_attendance
ExceptResult(exc) ==
  IF exc = "timeout" THEN ErrorResult("timeout") ELSE ErrorResult(exc)

\* ------------------------------------------------------------ lock release
\* mutant of Released: the task leaves _get_cookies without releasing the lock
ReleasedNever(t, next) ==
  /\ lockHolder' = lockHolder
  /\ lockWaiters' = lockWaiters
  /\ pc' = [pc EXCEPT ![t] = next]

\* asyncio.Lock.release wakes the first waiter; nobody else can take the lock
\* before it runs, so the lock passes to it directly.
Released(t, next) ==
  IF lockWaiters = <<>>
  THEN /\ lockHolder' = NoTask
       /\ lockWaiters' = lockWaiters
       /\ pc' = [pc EXCEPT ![t] = next]
  ELSE /\ lockHolder' = Head(lockWaiters)
       /\ lockWaiters' = Tail(lockWaiters)
       /\ pc' = [pc EXCEPT ![t] = next, ![Head(lockWaiters)] = "wake"]

\* _get_cookies returned cookies c to task t of kind k, the lock is released,
\* and the caller runs on to its next suspension: request_attendance sends the
\* POST, a direct caller has its value.
GotCookies(t, k, c, lg) ==
  /\ cookie_dict' = [cookie_dict EXCEPT ![t] = c]
  /\ awaited' = [awaited EXCEPT ![t] = 0]
  /\ IF k = "req"
     THEN /\ Released(t, "post")
          /\ log' = [log EXCEPT ![t] = Append(lg, <<"post", c>>)]
          /\ result' = result
     ELSE /\ Released(t, "done")
          /\ log' = [log EXCEPT ![t] = lg]
          /\ result' = [result EXCEPT ![t] = [NoResult EXCEPT !.error = ""]]

\* the body of "async with _cookie_lock" in _get_cookies, run by task t with
\* force_refresh = f while the cache is (cc, at)
UnderLock(t, k, f, cc, at, lg) ==
  IF UsesCache(f, cc, at, now)
  THEN /\ GotCookies(t, k, cc, lg)
       /\ UNCHANGED <<loginSeq, inFlight>>
  ELSE /\ lockHolder' = t
       /\ lockWaiters' = lockWaiters
       /\ loginSeq' = loginSeq + 1
       /\ inFlight' = inFlight \cup {t}
       /\ pc' = [pc EXCEPT ![t] = "login"]
       /\ log' = [log EXCEPT ![t] = Append(lg, <<"login", loginSeq + 1>>)]
       /\ UNCHANGED <<cookie_dict, result, awaited>>

\* the id of the login flow task t is running
LoginId(t) == log[t][Len(log[t])][2]

\* the login flow that holds the lock, 0 when none is running
FlightId ==
  IF lockHolder # NoTask /\ pc[lockHolder] = "login" THEN LoginId(lockHolder) ELSE 0

\* task t calls _get_cookies(force_refresh = f)
GetCookies(t, k, f, cc, at, lg) ==
  /\ force' = [force EXCEPT ![t] = f]
  /\ IF LockFree
     THEN UnderLock(t, k, f, cc, at, lg)
     ELSE /\ lockWaiters' = Append(lockWaiters, t)
          /\ awaited' = [awaited EXCEPT ![t] = FlightId]
          /\ pc' = [pc EXCEPT ![t] = "wait"]
          /\ log' = [log EXCEPT ![t] = lg]
          /\ UNCHANGED <<lockHolder, loginSeq, inFlight, cookie_dict, result>>

\* ------------------------------------------------------------ Init
\* the module has just been imported: empty cache, free lock, no call yet
Loaded ==
  /\ now = StartTime
  /\ ticks = 0
  /\ calls = 0
  /\ username \in Usernames
  /\ password \in Passwords
  /\ cachedCookies = NoCookies
  /\ cookieCachedAt = 0
  /\ lockHolder = NoTask
  /\ lockWaiters = <<>>
  /\ loginSeq = 0
  /\ inFlight = {}
  /\ pc = [t \in Tasks |-> "idle"]
  /\ kind = [t \in Tasks |-> "req"]
  /\ force = [t \in Tasks |-> FALSE]
  /\ attempt = [t \in Tasks |-> 1]
  /\ cookie_dict = [t \in Tasks |-> NoCookies]
  /\ result = [t \in Tasks |-> NoResult]
  /\ log = [t \in Tasks |-> <<>>]
  /\ epoch = [t \in Tasks |-> 0]
  /\ awaited = [t \in Tasks |-> 0]
  /\ loginFailed = FALSE
  /\ authFailed = FALSE
  /\ cleared = 0
  /\ unread = [t \in Tasks |-> {}]
  /\ route = [t \in Tasks |-> NoRoute]
  /\ reply = [t \in Tasks |-> "none"]
  /\ header = [t \in Tasks |-> NoHeader]

\* settings = Settings.from_env(): the subdomain is never empty
Init == Loaded /\ subdomain = DefaultSubdomain

\* api.settings replaced by a Settings built directly, whose subdomain may be
\* empty
InitApi == Loaded /\ subdomain \in Subdomains

\* ------------------------------------------------------------ actions
\* The clock advances while the event loop waits for I/O.  A woken lock waiter
\* is in the loop's ready queue, so the loop does not wait before it has run.
Tick(d) ==
  /\ ticks < MaxTicks
  /\ \A t \in Tasks : pc[t] # "wake"
  /\ now' = now + d
  /\ ticks' = ticks + 1
  /\ UNCHANGED <<calls, username, password, subdomain, cachedCookies, cookieCachedAt,
                 lockHolder, lockWaiters, loginSeq, inFlight, pc, kind, force,
                 attempt, cookie_dict, result, log, epoch, awaited, loginFailed,
                 authFailed, cleared, unread>>
  /\ UNCHANGED <<route, reply, header>>

\* A call of kind k starts in a free task slot.
StartCall(t, k) ==
  /\ pc[t] = "idle"
  /\ calls < MaxCalls
  /\ calls' = calls + 1
  /\ kind' = [kind EXCEPT ![t] = k]
  /\ UNCHANGED <<now, ticks, username, password, subdomain, cachedCookies, cookieCachedAt,
                 attempt, loginFailed, authFailed, cleared, unread>>

\* request_attendance(base_date, attendance_type) is called and runs up to
\* the first suspension inside _get_cookies(endpoints, force_refresh=False)
RequestAttendance(t) ==
  /\ StartCall(t, "req")
  /\ GetCookies(t, "req", FALSE, cachedCookies, cookieCachedAt, <<>>)
  /\ epoch' = [epoch EXCEPT ![t] = loginSeq']
  /\ UNCHANGED <<route, reply, header>>

\* _get_cookies(endpoints, force_refresh=f) is called directly
GetCookiesCall(t, f) ==
  /\ StartCall(t, "get")
  /\ GetCookies(t, "get", f, cachedCookies, cookieCachedAt, <<>>)
  /\ epoch' = [epoch EXCEPT ![t] = loginSeq']
  /\ UNCHANGED <<route, reply, header>>

\* the handlers of api.py that stop before _process_attendance_sync: only
\* dooray_command does, on an empty body, a body that does not fit
\* DoorayCommandRequest, or a command it does not know
EarlyReply(rt, cmd) ==
  IF rt # "/dooray" THEN "none"
  ELSE IF cmd = "empty" THEN "empty_body"
  ELSE IF cmd = "malformed" THEN "bad_request"
  ELSE IF cmd \in {"/enter", "/leave"} THEN "none"
  ELSE "unknown_command"

\* _process_attendance_sync once request_attendance has returned r, whose
\* payload has the header hd.  The message is kept as the template that was
\* filled in and whether the text put into it contains "완료":
\*   - result.get raises AttributeError on a payload that is not an object,
\*     header.get raises it on a header that is not an object; the handler
\*     catches both;
\*   - a result without a payload (an error result) has no "header" key.
ProcessAttendanceSync(r, hd) ==
  IF r.payload = "other" \/ (r.payload = "object" /\ hd.kind = "other")
  THEN [template |-> "exception", marker |-> FALSE]
  ELSE IF r.payload = "object" /\ hd.kind = "object" /\ hd.isSuccessful
  THEN [template |-> "success", marker |-> TRUE]
  ELSE [template |-> "failure",
        marker |-> r.payload = "object" /\ hd.resultMessage = "marker"]

\* qr_enter and qr_leave: success = "완료" in result_msg
QrSuccess(msg) == msg.marker

\* an HTTP request for route rt arrives; its handler runs to its answer or to
\* the first suspension inside request_attendance
HttpRequest(t, rt, cmd) ==
  /\ route' = [route EXCEPT ![t] = rt]
  /\ header' = header
  /\ IF SettingsError \/ EarlyReply(rt, cmd) # "none"
     THEN /\ StartCall(t, "http")
          /\ reply' = [reply EXCEPT ![t] =
                         IF SettingsError THEN "config_error" ELSE EarlyReply(rt, cmd)]
          /\ pc' = [pc EXCEPT ![t] = "done"]
          /\ UNCHANGED <<lockHolder, lockWaiters, loginSeq, inFlight, force,
                         cookie_dict, result, log, epoch, awaited>>
     ELSE /\ StartCall(t, "req")
          /\ reply' = [reply EXCEPT ![t] = "attendance"]
          /\ GetCookies(t, "req", FALSE, cachedCookies, cookieCachedAt, <<>>)
          /\ epoch' = [epoch EXCEPT ![t] = loginSeq']

\* a waiter of _cookie_lock is woken holding the lock and runs the body
LockGranted(t) ==
  /\ pc[t] = "wake"
  /\ UnderLock(t, kind[t], force[t], cachedCookies, cookieCachedAt, log[t])
  /\ UNCHANGED <<now, ticks, calls, username, password, subdomain, cachedCookies,
                 cookieCachedAt, kind, force, attempt, epoch, loginFailed,
                 authFailed, cleared, unread>>
  /\ UNCHANGED <<route, reply, header>>

\* _login_and_get_cookies returns a non-empty cookie dict: _get_cookies stores
\* it with the current time and returns it
LoginSucceeds(t) ==
  /\ pc[t] = "login"
  /\ ~CredentialsMissing
  /\ cachedCookies' = LoginId(t)
  /\ cookieCachedAt' = now
  /\ inFlight' = inFlight \ {t}
  /\ loginSeq' = loginSeq
  /\ GotCookies(t, kind[t], LoginId(t), log[t])
  /\ cleared' = 0
  /\ UNCHANGED <<now, ticks, calls, username, password, subdomain, kind, force, attempt,
                 epoch, loginFailed, authFailed, unread>>
  /\ UNCHANGED <<route, reply, header>>

\* the reasons _login_and_get_cookies raises: a UI wait times out, the
\* credentials are missing (line 109), the browser context has no cookies
LoginFailures ==
  {"login_timeout"} \cup (IF CredentialsMissing THEN {"config"} ELSE {"no_cookies"})

\* _login_and_get_cookies raises: the lock is released, the cache is not
\* written; request_attendance turns the exception into a result, a direct
\* caller of _get_cookies sees it
LoginFails(t, why) ==
  /\ pc[t] = "login"
  /\ why \in LoginFailures
  /\ inFlight' = inFlight \ {t}
  /\ loginFailed' = TRUE
  /\ awaited' = [awaited EXCEPT ![t] = 0]
  /\ log' = [log EXCEPT ![t] = Append(log[t], <<"login_failed", LoginId(t)>>)]
  /\ IF Catches(kind[t])
     THEN /\ Released(t, "done")
          /\ result' = [result EXCEPT ![t] = ExceptResult(why)]
     ELSE /\ Released(t, "raised")
          /\ result' = [result EXCEPT ![t] = ErrorResult(why)]
  /\ UNCHANGED <<now, ticks, calls, username, password, subdomain, cachedCookies,
                 cookieCachedAt, loginSeq, kind, force, attempt, cookie_dict,
                 epoch, authFailed, cleared, unread>>
  /\ UNCHANGED <<route, reply, header>>

\* mutant of Invalidated: only the cookies are dropped
InvalidatedKeepsTime == [cookies |-> NoCookies, at |-> cookieCachedAt]

\* mutant of Invalidated: only the timestamp is reset
InvalidatedKeepsCookies == [cookies |-> cachedCookies, at |-> 0]

\* _invalidate_cookie_cache
Invalidated == [cookies |-> NoCookies, at |-> 0]

\* the POST of _call_attendance_api gets a response; request_attendance
\* returns its result or, after the first attempt failed authentication,
\* invalidates the cache and calls _get_cookies(endpoints, force_refresh=True)
Answered(t, st, body, len) ==
  /\ pc[t] = "post"
  /\ LET r == CallAttendanceApi(st, body, len)
         lg == Append(log[t], <<"response", st>>)
     IN IF r.raises
        THEN /\ pc' = [pc EXCEPT ![t] = IF Catches(kind[t]) THEN "done" ELSE "raised"]
             /\ result' = [result EXCEPT ![t] = ExceptResult("exception")]
             /\ log' = [log EXCEPT ![t] = Append(lg, <<"typeerror", st>>)]
             /\ UNCHANGED <<cachedCookies, cookieCachedAt, lockHolder, lockWaiters,
                            loginSeq, inFlight, force, attempt, cookie_dict, awaited>>
        ELSE IF Retries(attempt[t], r.success)
        THEN /\ cachedCookies' = Invalidated.cookies
             /\ cookieCachedAt' = Invalidated.at
             /\ attempt' = [attempt EXCEPT ![t] = 2]
             /\ GetCookies(t, "req", TRUE, Invalidated.cookies, Invalidated.at,
                           Append(lg, <<"invalidate", 0>>))
        ELSE /\ pc' = [pc EXCEPT ![t] = "done"]
             /\ result' = [result EXCEPT ![t] = r.result]
             /\ log' = [log EXCEPT ![t] =
                           IF body = "text" /\ ~IsAuthFailure(st)
                           THEN Append(lg, <<"unparsable", st>>) ELSE lg]
             /\ UNCHANGED <<cachedCookies, cookieCachedAt, lockHolder, lockWaiters,
                            loginSeq, inFlight, force, attempt, cookie_dict, awaited>>
  /\ authFailed' = (authFailed \/ IsAuthFailure(st))
  /\ UNCHANGED <<now, ticks, calls, username, password, subdomain, kind, epoch, loginFailed,
                 cleared>>
  /\ UNCHANGED <<route, reply>>

\* the step without that history
PostResponds(t, st, body, len) ==
  /\ Answered(t, st, body, len)
  /\ UNCHANGED <<unread, header>>

\* the same step, with the history of unparsed bodies kept
PostRespondsSeen(t, st, body, len) ==
  /\ Answered(t, st, body, len)
  /\ unread' = [unread EXCEPT ![t] =
                  IF body = "text" /\ IsAuthFailure(st)
                  THEN @ \cup {Len(log[t]) + 1} ELSE @]
  /\ header' = header

\* the same step, with the header of the payload kept: hd is the "header"
\* member of a JSON object body that _call_attendance_api parsed and returned
PostRespondsPayload(t, st, body, len, hd) ==
  /\ Answered(t, st, body, len)
  /\ (body # "object" \/ IsAuthFailure(st)) => hd = NoHeader
  /\ header' = [header EXCEPT ![t] = hd]
  /\ UNCHANGED unread

\* the POST raises httpx.TimeoutException or another httpx.RequestError
PostFails(t, exc) ==
  /\ pc[t] = "post"
  /\ pc' = [pc EXCEPT ![t] = IF Catches(kind[t]) THEN "done" ELSE "raised"]
  /\ result' = [result EXCEPT ![t] = ExceptResult(exc)]
  /\ log' = [log EXCEPT ![t] = Append(log[t], <<"neterror", 0>>)]
  /\ UNCHANGED <<now, ticks, calls, username, password, subdomain, cachedCookies,
                 cookieCachedAt, lockHolder, lockWaiters, loginSeq, inFlight,
                 kind, force, attempt, cookie_dict, epoch, awaited, loginFailed,
                 authFailed, cleared, unread>>
  /\ UNCHANGED <<route, reply, header>>

\* the caller has consumed the outcome; the task slot is free for a new call
Return(t) ==
  /\ pc[t] \in {"done", "raised"}
  /\ pc' = [pc EXCEPT ![t] = "idle"]
  /\ kind' = [kind EXCEPT ![t] = "req"]
  /\ force' = [force EXCEPT ![t] = FALSE]
  /\ attempt' = [attempt EXCEPT ![t] = 1]
  /\ cookie_dict' = [cookie_dict EXCEPT ![t] = NoCookies]
  /\ result' = [result EXCEPT ![t] = NoResult]
  /\ log' = [log EXCEPT ![t] = <<>>]
  /\ epoch' = [epoch EXCEPT ![t] = 0]
  /\ awaited' = [awaited EXCEPT ![t] = 0]
  /\ unread' = [unread EXCEPT ![t] = {}]
  /\ route' = [route EXCEPT ![t] = NoRoute]
  /\ reply' = [reply EXCEPT ![t] = "none"]
  /\ header' = [header EXCEPT ![t] = NoHeader]
  /\ UNCHANGED <<now, ticks, calls, username, password, subdomain, cachedCookies,
                 cookieCachedAt, lockHolder, lockWaiters, loginSeq, inFlight,
                 loginFailed, authFailed, cleared>>

\* _invalidate_cookie_cache() is called directly; it has no await, so it runs
\* to its end in one step
InvalidateCall ==
  /\ cleared < MaxClears
  /\ cachedCookies' = Invalidated.cookies
  /\ cookieCachedAt' = Invalidated.at
  /\ cleared' = cleared + 1
  /\ UNCHANGED <<now, ticks, calls, username, password, subdomain, lockHolder, lockWaiters,
                 loginSeq, inFlight, pc, kind, force, attempt, cookie_dict,
                 result, log, epoch, awaited, loginFailed, authFailed, unread>>
  /\ UNCHANGED <<route, reply, header>>

\* the responses the attendance endpoint can give
Responses ==
  {<<st, b, 0>> : st \in Statuses, b \in {"object", "other"}}
    \cup {<<st, "text", n>> : st \in Statuses, n \in BodyLens}

Next ==
  \/ \E d \in TickSteps : Tick(d)
  \/ \E t \in Tasks : RequestAttendance(t)
  \/ \E t \in Tasks, f \in BOOLEAN : GetCookiesCall(t, f)
  \/ \E t \in Tasks : LockGranted(t)
  \/ \E t \in Tasks : LoginSucceeds(t)
  \/ \E t \in Tasks, why \in {"login_timeout", "config", "no_cookies"} : LoginFails(t, why)
  \/ \E t \in Tasks, r \in Responses : PostResponds(t, r[1], r[2], r[3])
  \/ \E t \in Tasks, exc \in NetErrors : PostFails(t, exc)
  \/ \E t \in Tasks : Return(t)

Spec == Init /\ [][Next]_vars

\* only request_attendance calls, as the HTTP entry points make them
NextReq ==
  \/ \E d \in TickSteps : Tick(d)
  \/ \E t \in Tasks : RequestAttendance(t)
  \/ \E t \in Tasks : LockGranted(t)
  \/ \E t \in Tasks : LoginSucceeds(t)
  \/ \E t \in Tasks, why \in {"login_timeout", "config", "no_cookies"} : LoginFails(t, why)
  \/ \E t \in Tasks, r \in Responses : PostResponds(t, r[1], r[2], r[3])
  \/ \E t \in Tasks, exc \in NetErrors : PostFails(t, exc)
  \/ \E t \in Tasks : Return(t)

SpecReq == Init /\ [][NextReq]_vars

\* only direct _get_cookies(force_refresh=False) calls
NextBurst ==
  \/ \E d \in TickSteps : Tick(d)
  \/ \E t \in Tasks : GetCookiesCall(t, FALSE)
  \/ \E t \in Tasks : LockGranted(t)
  \/ \E t \in Tasks : LoginSucceeds(t)
  \/ \E t \in Tasks, why \in {"login_timeout", "config", "no_cookies"} : LoginFails(t, why)
  \/ \E t \in Tasks : Return(t)

SpecBurst == Init /\ [][NextBurst]_vars

\* one caller at a time: a call starts only when no other call is running
NoCallRunning == \A u \in Tasks : pc[u] = "idle"

NextSolo ==
  \/ \E d \in SoloTickSteps : Tick(d)
  \/ \E t \in Tasks : NoCallRunning /\ RequestAttendance(t)
  \/ \E t \in Tasks, f \in BOOLEAN : NoCallRunning /\ GetCookiesCall(t, f)
  \/ NoCallRunning /\ InvalidateCall
  \/ \E t \in Tasks : LoginSucceeds(t)
  \/ \E t \in Tasks, why \in {"login_timeout", "config", "no_cookies"} : LoginFails(t, why)
  \/ \E t \in Tasks, r \in Responses : PostRespondsSeen(t, r[1], r[2], r[3])
  \/ \E t \in Tasks, exc \in NetErrors : PostFails(t, exc)
  \/ \E t \in Tasks : Return(t)

SpecSolo == Init /\ [][NextSolo]_vars

\* the HTTP entry points of api.py, one request at a time
NextApi ==
  \/ \E d \in TickSteps : Tick(d)
  \/ \E t \in Tasks, rt \in Routes, cmd \in Commands :
       NoCallRunning /\ HttpRequest(t, rt, cmd)
  \/ \E t \in Tasks : LoginSucceeds(t)
  \/ \E t \in Tasks, why \in {"login_timeout", "config", "no_cookies"} : LoginFails(t, why)
  \/ \E t \in Tasks, r \in Responses, hd \in Headers :
       PostRespondsPayload(t, r[1], r[2], r[3], hd)
  \/ \E t \in Tasks, exc \in NetErrors : PostFails(t, exc)
  \/ \E t \in Tasks : Return(t)

SpecApi == InitApi /\ [][NextApi]_vars

\* the login flow of task t ends, one way or the other
LoginEnds(t) ==
  \/ LoginSucceeds(t)
  \/ \E why \in {"login_timeout", "config", "no_cookies"} : LoginFails(t, why)

\* the POST of task t ends, one way or the other
PostEnds1(t) ==
  \/ \E r \in Responses : PostResponds(t, r[1], r[2], r[3])
  \/ \E exc \in NetErrors : PostFails(t, exc)

\* request_attendance calls on an event loop that runs every ready task,
\* with login flows and POSTs that all terminate (each has its timeouts)
Fairness ==
  \A t \in Tasks :
    /\ WF_vars(LockGranted(t))
    /\ WF_vars(LoginEnds(t))
    /\ WF_vars(PostEnds1(t))

\* the clock stands still here: it decides only between the cache-hit and
\* the login branch of _get_cookies, and both are taken without it (cold
\* cache, invalidation)
NextLive ==
  \/ \E t \in Tasks : RequestAttendance(t)
  \/ \E t \in Tasks : LockGranted(t)
  \/ \E t \in Tasks : LoginEnds(t)
  \/ \E t \in Tasks : PostEnds1(t)
  \/ \E t \in Tasks : Return(t)

SpecLive == Init /\ [][NextLive]_vars /\ Fairness

\* ====================================================================
\* Properties.  They read the variables and the logs directly, never the
\* operators that model the code.
\* ====================================================================
AuthStatuses == {401, 403}

\* positions of the events named ev in a log
Events(lg, ev) == {i \in 1..Len(lg) : lg[i][1] = ev}

\* the login events of the tasks in S
LoginEvents(S) == {<<t, i>> \in S \X (1..5) : i \in Events(log[t], "login")}

\* the cookies attached to the POSTs of task t
PostCookies(t) == {log[t][i][2] : i \in Events(log[t], "post")}

\* the cache holds a session that has not expired
CacheValidNow ==
  cachedCookies # NoCookies /\ now - cookieCachedAt < COOKIE_CACHE_TTL

\* S is a burst of calls of kind k that met a cold or expired cache: all have
\* returned, all arrived under the same latest login flow, and one of them
\* started that flow as the first thing it did
IsBurst(S, k) ==
  /\ S # {}
  /\ \A t \in S : pc[t] = "done" /\ kind[t] = k
  /\ \A t, u \in S : epoch[t] = epoch[u]
  /\ \E t \in S : log[t] # <<>> /\ log[t][1] = <<"login", epoch[t]>>

\* --------------------------------------------------------------------
\* C1: in a burst of concurrent _get_cookies(force_refresh=False) calls that
\* met a cold or expired cache, exactly one login flow was started and every
\* call returned the cookies of that flow, provided no login flow failed.
C1_BurstSharesOneLogin ==
  ~loginFailed =>
    \A S \in SUBSET Tasks :
      (IsBurst(S, "get") /\ \A t \in S : ~force[t]) =>
        /\ Cardinality(LoginEvents(S)) = 1
        /\ \A t \in S : cookie_dict[t] = epoch[t]

\* two calls have returned from a burst on an expired cache: one ran the second
\* login flow of the run, the other waited, both hold its cookies
C1_Witness ==
  \E t, u \in Tasks :
    /\ t # u /\ IsBurst({t, u}, "get") /\ ~force[t] /\ ~force[u]
    /\ epoch[t] = 2 /\ log[t] = <<<<"login", 2>>>> /\ log[u] = <<>>
    /\ cookie_dict[t] = 2 /\ cookie_dict[u] = 2

\* --------------------------------------------------------------------
\* C2 as stated: in a burst of concurrent request_attendance calls that met a
\* cold or expired cache, exactly one login flow runs and every POST of every
\* call carries its cookies.
C2_Original ==
  \A S \in SUBSET Tasks :
    IsBurst(S, "req") =>
      /\ Cardinality(LoginEvents(S)) = 1
      /\ \A t \in S : PostCookies(t) \subseteq {epoch[t]}

\* C2 amended: the same, provided no login flow failed and no POST was
\* answered 401 or 403.
C2_BurstOneLoginUnlessAuthFails ==
  (~loginFailed /\ ~authFailed) => C2_Original

\* both calls of a burst have returned, each after one POST with the cookies of
\* the one login flow
C2_Witness ==
  /\ ~loginFailed /\ ~authFailed
  /\ \E t, u \in Tasks :
       /\ t # u /\ IsBurst({t, u}, "req")
       /\ log[t][1] = <<"login", epoch[t]>>
       /\ PostCookies(t) = {epoch[t]} /\ PostCookies(u) = {epoch[t]}
       /\ Events(log[u], "login") = {}

\* --------------------------------------------------------------------
\* C3: at most one _login_and_get_cookies invocation is in flight, in every
\* reachable state, the forced-refresh retry path included.
C3_SingleFlight ==
  Cardinality({t \in Tasks : pc[t] = "login"}) <= 1

\* a retry's forced login is running while another call waits for the lock
C3_Witness ==
  \E t, u \in Tasks :
    /\ pc[t] = "login" /\ attempt[t] = 2
    /\ pc[u] = "wait"

\* --------------------------------------------------------------------
\* what a finished request_attendance call did, read from its log
Finished(t) == kind[t] = "req" /\ pc[t] = "done"

Responses1(t) == Events(log[t], "response")

\* the call's first POST was answered 401 or 403
FirstAuthFailed(t) ==
  \E i \in Responses1(t) :
    /\ log[t][i][2] \in AuthStatuses
    /\ \A j \in Responses1(t) : j >= i

\* the call's second POST was answered 401 or 403
SecondAuthFailed(t) ==
  \E i, j \in Responses1(t) : i < j /\ log[t][j][2] \in AuthStatuses

\* logins the call started after its first response
ForcedLogins(t) ==
  {i \in Events(log[t], "login") : \E r \in Responses1(t) : r < i}

ForcedLoginFailed(t) ==
  \E i \in Events(log[t], "login_failed") : \E r \in Responses1(t) : r < i

IsErrorResult(r) == r.error \notin {"", "pending"}

\* C4 as stated: a call whose first POST is answered 401 or 403 does exactly
\* one invalidate, one forced login and one second POST; when the second POST
\* is answered 401 or 403 too it returns the authentication error result and
\* does nothing more; it never raises.
C4_Original ==
  \A t \in Tasks :
    /\ kind[t] = "req" => pc[t] # "raised"
    /\ (Finished(t) /\ FirstAuthFailed(t)) =>
         /\ Cardinality(Events(log[t], "invalidate")) = 1
         /\ Cardinality(ForcedLogins(t)) = 1
         /\ Cardinality(Events(log[t], "post")) = 2
         /\ SecondAuthFailed(t) =>
              /\ result[t].error = "auth"
              /\ Cardinality(Responses1(t)) = 2
              /\ log[t][Len(log[t])][1] = "response"

\* C4 amended: the second POST is sent exactly when the forced login succeeds;
\* when it fails the call ends there with an error result and one POST.
C4_OneRetryCycle ==
  \A t \in Tasks :
    /\ kind[t] = "req" => pc[t] # "raised"
    /\ (Finished(t) /\ FirstAuthFailed(t)) =>
         /\ Cardinality(Events(log[t], "invalidate")) = 1
         /\ Cardinality(ForcedLogins(t)) = 1
         /\ Cardinality(Events(log[t], "post")) = IF ForcedLoginFailed(t) THEN 1 ELSE 2
         /\ ForcedLoginFailed(t) => IsErrorResult(result[t])
         /\ SecondAuthFailed(t) =>
              /\ result[t].error = "auth"
              /\ Cardinality(Responses1(t)) = 2
              /\ log[t][Len(log[t])][1] = "response"

\* a call has returned the authentication error after two rejected POSTs
C4_Witness ==
  \E t \in Tasks :
    /\ Finished(t) /\ FirstAuthFailed(t) /\ SecondAuthFailed(t)
    /\ result[t].error = "auth"
    /\ Cardinality(Events(log[t], "post")) = 2

\* --------------------------------------------------------------------
\* C5: a request_attendance call sends at most two POSTs, whatever the
\* responses, network failures and login failures.
C5_AtMostTwoPosts ==
  \A t \in Tasks : Cardinality(Events(log[t], "post")) <= 2

\* a call sent two POSTs and the second one failed at network level
C5_Witness ==
  \E t \in Tasks :
    /\ Finished(t)
    /\ Cardinality(Events(log[t], "post")) = 2
    /\ log[t][Len(log[t])][1] = "neterror"

\* --------------------------------------------------------------------
\* C6: within one call, a second POST comes only after a 401/403 response to
\* the first POST and an invalidation after that response, and the forced
\* login that feeds the second POST starts after the invalidation.
C6_InvalidateBeforeRetry ==
  \A t \in Tasks :
    \A i, j \in Events(log[t], "post") :
      i < j =>
        \E a \in Responses1(t), b \in Events(log[t], "invalidate") :
          /\ i < a /\ a < b /\ b < j
          /\ log[t][a][2] \in AuthStatuses
          /\ \A l \in Events(log[t], "login") : (i < l /\ l < j) => b < l

\* the retry POST of a call is on its way
C6_Witness ==
  \E t \in Tasks :
    /\ pc[t] = "post"
    /\ Cardinality(Events(log[t], "post")) = 2
    /\ Cardinality(Events(log[t], "invalidate")) = 1

\* --------------------------------------------------------------------
\* a failure happened below the call
FailureBelow(t) ==
  \/ Events(log[t], "login_failed") # {}
  \/ Events(log[t], "neterror") # {}
  \/ Events(log[t], "unparsable") # {}
  \/ Events(log[t], "typeerror") # {}
  \/ log[t][Len(log[t])] \in {<<"response", st>> : st \in AuthStatuses}

\* C7: request_attendance never raises; a call that met a login failure,
\* missing credentials, a timeout, a connection error, an unparsable body or a
\* repeated authentication failure returns a result with an error indication.
C7_FailuresBecomeResults ==
  \A t \in Tasks :
    kind[t] = "req" =>
      /\ pc[t] # "raised"
      /\ pc[t] = "done" =>
           /\ result[t].error # "pending"
           /\ FailureBelow(t) => IsErrorResult(result[t])

\* a call whose retry login failed has returned an error result
C7_Witness ==
  \E t \in Tasks :
    /\ Finished(t)
    /\ ForcedLoginFailed(t)
    /\ result[t].error = "login_timeout"

\* --------------------------------------------------------------------
\* C8 as stated: with an empty username or password, request_attendance
\* launches no browser and sends no POST.
C8_NoBrowserWithoutCredentials ==
  (username = "" \/ password = "") =>
    \A t \in Tasks :
      kind[t] = "req" =>
        /\ Events(log[t], "login") = {}
        /\ Events(log[t], "post") = {}

\* --------------------------------------------------------------------
\* task t is granted the lock it waited for, in this step
Granted(t) == pc[t] = "wake" /\ pc'[t] # "wake"

\* task t starts a login flow of its own in this step
StartsLogin(t) == pc'[t] = "login" /\ loginSeq' = loginSeq + 1

\* task t leaves _get_cookies with cookies c in this step, without a login
ReturnsCached(t, c) ==
  /\ pc'[t] \in {"post", "done"}
  /\ cookie_dict'[t] = c
  /\ loginSeq' = loginSeq

\* C9 as stated: a _get_cookies caller, with either value of force_refresh,
\* that arrived while another caller's login flow was in progress returns that
\* flow's cookies when it gets the lock and starts no login flow of its own
\* (taken here with the flow's cookies in the cache and unexpired).
C9_Original ==
  [][\A t \in Tasks :
       (Granted(t) /\ awaited[t] # 0 /\ cachedCookies = awaited[t] /\ CacheValidNow)
         => ReturnsCached(t, awaited[t])]_vars

\* C9 amended: such a caller waits for the lock; with force_refresh=False it
\* returns the session that is cached and unexpired when it gets the lock (the
\* awaited flow's cookies when they are still there) without a login flow of
\* its own, and starts one only when there is no such session; with
\* force_refresh=True it always starts a login flow of its own.
C9_WaiterUsesCacheUnlessForced ==
  [][\A t \in Tasks :
       /\ (awaited[t] = 0 /\ awaited'[t] # 0) => pc'[t] = "wait"
       /\ (Granted(t) /\ awaited[t] # 0) =>
            IF force[t] THEN StartsLogin(t)
            ELSE IF CacheValidNow THEN ReturnsCached(t, cachedCookies)
            ELSE StartsLogin(t)]_vars

\* a forced caller that had waited for another caller's login flow is running
\* its own, and the flow it waited for left its cookies in the cache
C9_Witness ==
  \E t \in Tasks :
    /\ pc[t] = "login" /\ force[t]
    /\ awaited[t] # 0 /\ cachedCookies = awaited[t]

\* --------------------------------------------------------------------
\* task t issues a _get_cookies(force_refresh=False) call in this step, as a
\* direct call or as the first thing request_attendance does
CallsUnforced(t) == pc[t] = "idle" /\ pc'[t] # "idle" /\ ~force'[t]

\* C10 as stated: a _get_cookies(force_refresh=False) call made while the
\* cache holds a valid session returns its cookies without waiting for the
\* lock.
C10_Original ==
  [][\A t \in Tasks :
       (CallsUnforced(t) /\ CacheValidNow) => ReturnsCached(t, cachedCookies)]_vars

\* C10 amended: such a call takes the lock first.  With the lock free it
\* returns the cached cookies at once, without a login flow; with the lock
\* held or awaited it joins the waiters and starts no login flow.
C10_CacheHitTakesLock ==
  [][\A t \in Tasks :
       (CallsUnforced(t) /\ CacheValidNow) =>
         IF lockHolder = NoTask /\ lockWaiters = <<>>
         THEN ReturnsCached(t, cachedCookies)
         ELSE /\ pc'[t] = "wait"
              /\ lockWaiters' = Append(lockWaiters, t)
              /\ loginSeq' = loginSeq]_vars

\* a call that found a valid session waits for the lock held by a login flow
C10_Witness ==
  \E t, u \in Tasks :
    /\ pc[t] = "wait" /\ ~force[t] /\ log[t] = <<>>
    /\ CacheValidNow
    /\ pc[u] = "login" /\ lockHolder = u

\* --------------------------------------------------------------------
\* the finished request_attendance call t met a cache without a valid session:
\* the first thing it did was start a login flow
MetColdCache(t) ==
  Finished(t) /\ log[t] # <<>> /\ log[t][1][1] = "login"

\* C11 as stated: a single request_attendance call on a cold cache, with no
\* other call running, starts exactly one login flow and sends exactly one
\* POST.
C11_Original ==
  \A t \in Tasks :
    MetColdCache(t) =>
      /\ Cardinality(Events(log[t], "login")) = 1
      /\ Cardinality(Events(log[t], "post")) = 1

\* C11 amended: the same, provided the login flow succeeds and the POST is
\* not answered 401 or 403; a failed login flow leaves the call with one
\* login flow and no POST.
C11_ColdCallOneLoginOnePost ==
  \A t \in Tasks :
    MetColdCache(t) =>
      IF Events(log[t], "login_failed") = {} /\ ~FirstAuthFailed(t)
      THEN /\ Cardinality(Events(log[t], "login")) = 1
           /\ Cardinality(Events(log[t], "post")) = 1
      ELSE FirstAuthFailed(t) \/
             (/\ Cardinality(Events(log[t], "login")) = 1
              /\ Events(log[t], "post") = {})

\* a call on a cold cache has returned a 200 answer after one login flow and
\* one POST with that flow's cookies
C11_Witness ==
  \E t \in Tasks :
    /\ MetColdCache(t)
    /\ log[t] = <<<<"login", 1>>, <<"post", 1>>, <<"response", 200>>>>
    /\ result[t].error = ""

\* --------------------------------------------------------------------
\* C12: a _get_cookies(force_refresh=False) call returns the cached cookies
\* without a login flow if and only if the cache holds a session (none was
\* stored yet or an invalidation removed it otherwise) whose age
\* now - _cookie_cached_at is strictly below 1800; at age exactly 1800, as
\* with no session, the call starts a login flow.
C12_ValidIffYoungerThanTTL ==
  [][\A t \in Tasks :
       CallsUnforced(t) =>
         /\ ReturnsCached(t, cachedCookies) <=>
               (cachedCookies # NoCookies /\ now - cookieCachedAt < 1800)
         /\ (cachedCookies = NoCookies \/ now - cookieCachedAt >= 1800)
               => StartsLogin(t)]_vars

\* an unforced call met a session of age exactly 1800 and is running a login
\* flow
C12_Witness ==
  \E t \in Tasks :
    /\ pc[t] = "login" /\ ~force[t] /\ Len(log[t]) = 1
    /\ cachedCookies # NoCookies
    /\ now - cookieCachedAt = 1800

\* --------------------------------------------------------------------
\* task t calls _get_cookies from outside, or request_attendance, in this step
Calls(t) == pc[t] = "idle" /\ pc'[t] # "idle"

\* the login flow of task t returns cookies in this step
LoginReturns(t) ==
  /\ pc[t] = "login" /\ pc'[t] # "login"
  /\ Events(log'[t], "login_failed") = Events(log[t], "login_failed")

\* C13: with a cached session older than 1800 s, the next _get_cookies call
\* starts a login flow, and only one; when the flow returns its cookies they
\* are stored with the time of that moment as timestamp; a
\* _get_cookies(force_refresh=False) call that follows within the TTL starts
\* no login flow.
C13_ExpiredSessionRefreshedOnce ==
  /\ [](\A t \in Tasks :
          kind[t] = "get" => Cardinality(Events(log[t], "login")) <= 1)
  /\ [][\A t \in Tasks :
          /\ (Calls(t) /\ cachedCookies # NoCookies
                 /\ now - cookieCachedAt > COOKIE_CACHE_TTL) => StartsLogin(t)
          /\ LoginReturns(t) =>
                /\ cachedCookies' = loginSeq /\ cachedCookies' # cachedCookies
                /\ cookieCachedAt' = now'
                /\ cookie_dict'[t] = cachedCookies'
          /\ (CallsUnforced(t) /\ cachedCookies # NoCookies
                 /\ now - cookieCachedAt < COOKIE_CACHE_TTL) =>
                (loginSeq' = loginSeq /\ cookie_dict'[t] = cachedCookies)]_vars

\* the second login flow of the run stored its cookies more than 1800 s after
\* the first, and a later unforced call within the TTL has returned them
\* without a login flow
C13_Witness ==
  \E t \in Tasks :
    /\ pc[t] = "done" /\ kind[t] = "get" /\ ~force[t] /\ log[t] = <<>>
    /\ loginSeq = 2 /\ cachedCookies = 2 /\ cookie_dict[t] = 2
    /\ ~loginFailed /\ ~authFailed /\ cleared = 0
    /\ cookieCachedAt - StartTime > COOKIE_CACHE_TTL
    /\ now > cookieCachedAt /\ now - cookieCachedAt < COOKIE_CACHE_TTL

\* --------------------------------------------------------------------
\* the first POST of task t fails at network level in this step
FirstPostFails(t) ==
  /\ pc[t] = "post" /\ Responses1(t) = {}
  /\ Events(log'[t], "neterror") # {}

\* C14: a timeout or connection error on the first POST of a
\* request_attendance call ends the call in that step with an error result
\* that carries a message: no invalidation, no forced login, no second POST,
\* and the cached cookies and timestamp stay as they were.
C14_NetworkFailureNoRetry ==
  /\ [][\A t \in Tasks :
          FirstPostFails(t) =>
            /\ pc'[t] = "done"
            /\ result'[t].error \in {"timeout", "request_error"}
            /\ cachedCookies' = cachedCookies /\ cookieCachedAt' = cookieCachedAt
            /\ loginSeq' = loginSeq /\ lockHolder' = lockHolder
            /\ log'[t] = Append(log[t], <<"neterror", 0>>)]_vars
  /\ [](\A t \in Tasks :
          (Events(log[t], "neterror") # {} /\ Responses1(t) = {}) =>
            /\ Finished(t)
            /\ Events(log[t], "invalidate") = {}
            /\ Cardinality(Events(log[t], "post")) = 1
            /\ Cardinality(Events(log[t], "login")) <= 1
            /\ \A i \in Events(log[t], "login") : i = 1)

\* a call that took its cookies from the cache has returned the timeout
\* result after one POST, and the cache still holds those cookies
C14_Witness ==
  \E t \in Tasks :
    /\ Finished(t)
    /\ log[t] = <<<<"post", cachedCookies>>, <<"neterror", 0>>>>
    /\ cachedCookies # NoCookies
    /\ result[t].error = "timeout"

\* --------------------------------------------------------------------
\* the finished call t ended on the answer to its last POST
EndedOnResponse(t) ==
  /\ Finished(t) /\ Responses1(t) # {}
  /\ \A i \in 1..Len(log[t]) :
       (\A r \in Responses1(t) : r < i) => log[t][i][1] \in {"unparsable", "typeerror"}

\* the status of the last response task t received
FinalStatus(t) ==
  log[t][CHOOSE r \in Responses1(t) : \A q \in Responses1(t) : q <= r][2]

\* C15, as stated for a final status other than 200: the result of
\* request_attendance carries the final HTTP status code whenever that status
\* is not 200, a final 401 or 403 included; and a 200 answer with a JSON body
\* is returned as parsed, with no error field and no status code added.
C15_Not200IsAnnotated ==
  \A t \in Tasks :
    EndedOnResponse(t) =>
      /\ FinalStatus(t) # 200 => result[t].status_code = FinalStatus(t)
      /\ (FinalStatus(t) = 200 /\ Events(log[t], "unparsable") = {}) =>
           (/\ result[t].error = "" /\ result[t].status_code = NoStatus
            /\ result[t].payload \in {"object", "other"})

\* --------------------------------------------------------------------
\* log positions of the responses of task t whose body is not JSON: those the
\* code tried to parse, and those it did not read
ParseFailures(t) == {i - 1 : i \in Events(log[t], "unparsable")}

NonJsonResponses(t) == ParseFailures(t) \cup unread[t]

\* the result carries status st and an excerpt of at most 500 characters
CarriesExcerpt(r, st) ==
  /\ r.error \notin {"", "pending"}
  /\ r.status_code = st
  /\ r.response_text \in 0..500

\* C16 as stated: whenever a response to a POST of a request_attendance call,
\* first or second, of any status, has a body that is not JSON, the call
\* returns an error result with that response's status code and an excerpt of
\* the body of at most 500 characters, and raises nothing.
C16_Original ==
  \A t \in Tasks :
    kind[t] = "req" =>
      /\ pc[t] # "raised"
      /\ Finished(t) =>
           \A i \in NonJsonResponses(t) : CarriesExcerpt(result[t], log[t][i][2])

\* C16 amended: that holds for a response whose status is neither 401 nor
\* 403, and such a response ends the call.  The body of a 401 or 403 response
\* is never parsed: after the first POST the call goes on to its retry, after
\* the second it returns the authentication error result, without status code
\* and excerpt.
C16_UnparsableBecomesErrorResult ==
  \A t \in Tasks :
    kind[t] = "req" =>
      /\ pc[t] # "raised"
      /\ \A i \in ParseFailures(t) :
           /\ log[t][i][2] \notin AuthStatuses
           /\ Finished(t) /\ i + 1 = Len(log[t])
           /\ CarriesExcerpt(result[t], log[t][i][2])
      /\ \A i \in unread[t] :
           /\ log[t][i] \in {<<"response", st>> : st \in AuthStatuses}
           /\ (Finished(t) /\ i = Len(log[t])) =>
                (/\ result[t].error = "auth"
                 /\ result[t].status_code = NoStatus
                 /\ result[t].response_text = NoText)

\* a call whose retry POST was answered 500 with a body that is not JSON has
\* returned the parse error result with status 500 and a 500-character excerpt
C16_Witness ==
  \E t \in Tasks :
    /\ Finished(t) /\ attempt[t] = 2
    /\ log[t][Len(log[t])] = <<"unparsable", 500>>
    /\ result[t].error = "json"
    /\ result[t].status_code = 500
    /\ result[t].response_text = EXCERPT_LEN

\* --------------------------------------------------------------------
\* C17: _invalidate_cookie_cache leaves the cache without cookies and with
\* timestamp 0 whatever it held before (nothing, a valid session, an expired
\* one, or nothing after an earlier invalidation), so one call and two calls
\* in a row leave the same state; the next _get_cookies(force_refresh=False)
\* call starts a login flow.
C17_InvalidateClearsIdempotent ==
  /\ [][cleared' = cleared + 1 =>
          (cachedCookies' = NoCookies /\ cookieCachedAt' = 0)]_vars
  /\ [](cleared > 0 => (cachedCookies = NoCookies /\ cookieCachedAt = 0))
  /\ [][\A t \in Tasks :
          (CallsUnforced(t) /\ cleared > 0) => StartsLogin(t)]_vars

\* a session was stored, _invalidate_cookie_cache was called twice in a row,
\* and the unforced call that followed is running a login flow
C17_Witness ==
  \E t \in Tasks :
    /\ cleared = 2 /\ loginSeq = 2 /\ ~loginFailed
    /\ pc[t] = "login" /\ ~force[t] /\ log[t] = <<<<"login", 2>>>>
    /\ cachedCookies = NoCookies /\ cookieCachedAt = 0

\* --------------------------------------------------------------------
\* C18: each of /dooray, /enter, /leave, /qr/enter and /qr/leave checks the
\* settings first: with an empty username, password or subdomain the handler
\* answers with the configuration error and request_attendance is not called,
\* so no login flow (no browser) starts and no POST is sent.
C18_SettingsCheckedFirst ==
  (username = "" \/ password = "" \/ subdomain = "") =>
    /\ loginSeq = 0
    /\ \A t \in Tasks :
         /\ log[t] = <<>> /\ result[t] = NoResult
         /\ route[t] \in Routes =>
              (pc[t] = "done" /\ kind[t] = "http" /\ reply[t] = "config_error")

\* only the subdomain is empty, and a /qr/leave request has been answered with
\* the configuration error
C18_Witness ==
  \E t \in Tasks :
    /\ username # "" /\ password # "" /\ subdomain = ""
    /\ route[t] = "/qr/leave" /\ pc[t] = "done" /\ reply[t] = "config_error"
    /\ loginSeq = 0

\* --------------------------------------------------------------------
\* the cached session slot is written in this step
CacheWritten ==
  cachedCookies' # cachedCookies \/ cookieCachedAt' # cookieCachedAt

\* task t calls _invalidate_cookie_cache in this step
Invalidates(t) ==
  Events(log'[t], "invalidate") # Events(log[t], "invalidate")

\* the POST of task t is answered or fails in this step
PostEnds(t) == pc[t] = "post" /\ log'[t] # log[t]

\* the login flow of task t raises in this step
LoginRaises(t) ==
  /\ pc[t] = "login"
  /\ Events(log'[t], "login_failed") # Events(log[t], "login_failed")

\* task t gets the cached cookies from _get_cookies in this step
CacheHit(t) ==
  /\ pc[t] \in {"idle", "wake"} /\ pc'[t] \in {"post", "done"}
  /\ loginSeq' = loginSeq

\* C19: the cached cookies and timestamp change in two ways only: a login
\* flow that returns inside _get_cookies stores its cookies, and
\* _invalidate_cookie_cache clears both.  The outcome of a POST (an answer of
\* any status, a network failure), a login flow that raises and a cache hit
\* write neither of them; after a first 401/403 it is the invalidation that
\* request_attendance calls which clears the cache.
C19_CacheWrittenByStoreOrInvalidate ==
  [][/\ CacheWritten =>
          \/ \E t \in Tasks :
               /\ LoginReturns(t)
               /\ cachedCookies' = log[t][Len(log[t])][2]
               /\ cachedCookies' # NoCookies
          \/ /\ cachedCookies' = NoCookies /\ cookieCachedAt' = 0
             /\ \E t \in Tasks : Invalidates(t)
      /\ \A t \in Tasks :
           /\ (PostEnds(t) /\ ~Invalidates(t)) => ~CacheWritten
           /\ LoginRaises(t) => ~CacheWritten
           /\ CacheHit(t) => ~CacheWritten]_vars

\* a call invalidated the session of the first login flow after a 401/403,
\* and its forced login flow has stored a new one
C19_Witness ==
  \E t \in Tasks :
    /\ pc[t] = "post" /\ attempt[t] = 2
    /\ Events(log[t], "invalidate") # {}
    /\ log[t][Len(log[t])] = <<"post", cachedCookies>>
    /\ cachedCookies > 1 /\ cookieCachedAt > StartTime

\* --------------------------------------------------------------------
\* C20: in every reachable state the cache has no cookies exactly when its
\* timestamp is 0; cookies that are there are those of a login flow that
\* returned (a non-empty set), and the timestamp is the time at which that
\* flow returned: whenever new cookies are stored the timestamp is set to the
\* current time in the same step, and the timestamp never changes under
\* cookies that stay.
C20_CookiesAndTimestampAgree ==
  /\ []((cachedCookies = NoCookies) <=> (cookieCachedAt = 0))
  /\ [](cachedCookies # NoCookies =>
          (/\ cachedCookies \in 1..loginSeq
           /\ cookieCachedAt >= StartTime /\ cookieCachedAt <= now
           /\ \A t \in Tasks : pc[t] = "login" => cachedCookies # log[t][Len(log[t])][2]))
  /\ [][/\ (cachedCookies' # cachedCookies /\ cachedCookies' # NoCookies) =>
             (/\ cookieCachedAt' = now'
              /\ \E t \in Tasks :
                   LoginReturns(t) /\ cachedCookies' = log[t][Len(log[t])][2])
        /\ cookieCachedAt' # cookieCachedAt => cachedCookies' # cachedCookies]_vars

\* after an invalidation the cache holds the cookies of the second login
\* flow, stored after the clock had advanced, and they have aged since
C20_Witness ==
  /\ authFailed
  /\ cachedCookies = 2
  /\ cookieCachedAt > StartTime /\ now > cookieCachedAt

\* --------------------------------------------------------------------
\* C21: the lock is released whenever a login flow ends, by its return or by
\* an exception.  With login flows and POSTs that all terminate, every task
\* that waits for the lock in _get_cookies gets it, and every
\* request_attendance call returns a result.
C21_WaitersProceedCallsReturn ==
  /\ [][\A t \in Tasks :
          (pc[t] = "login" /\ pc'[t] # "login") => lockHolder' # t]_vars
  /\ \A t \in Tasks :
       /\ (pc[t] = "wait") ~> (lockHolder = t)
       /\ (pc[t] # "idle") ~> (pc[t] = "done" /\ result[t].error # "pending")

\* a task that waited for a login flow which then raised holds the lock and
\* runs a login flow of its own
C21_Witness ==
  \E t \in Tasks :
    /\ pc[t] = "login" /\ lockHolder = t
    /\ awaited[t] # 0 /\ loginFailed
    /\ cachedCookies = NoCookies /\ ~authFailed

\* ------------------------------------------------------------ C22
\* the POSTs task t sent after it invalidated the cache
RetryPosts(t) ==
  {j \in Events(log[t], "post") : \E i \in Events(log[t], "invalidate") : i < j}

\* the login flows task t started itself between its invalidation and POST j
OwnRefreshes(t, j) ==
  {k \in Events(log[t], "login") :
     k < j /\ \E i \in Events(log[t], "invalidate") : i < k}

\* C22: the retry POST of a request_attendance call carries the cookies of a
\* login flow the call started itself after it saw the 401/403 and invalidated
\* the cache; they are never the cookies of its first POST, whatever other
\* calls invalidate or refresh in between.
C22_RetryCarriesFreshCookies ==
  \A t \in Tasks : \A j \in RetryPosts(t) :
    /\ \E k \in OwnRefreshes(t, j) : log[t][j][2] = log[t][k][2]
    /\ \A h \in Events(log[t], "post") : h < j => log[t][h][2] < log[t][j][2]

\* a retry POST is in flight whose forced login waited behind the refresh of
\* another call that had also seen an authentication failure
C22_Witness ==
  \E t \in Tasks : \E u \in Tasks \ {t} : \E j \in RetryPosts(t) :
    /\ pc[t] = "post"
    /\ Events(log[u], "invalidate") # {}
    /\ \E h \in Events(log[t], "post") : h < j /\ log[t][h][2] + 1 < log[t][j][2]
    /\ cachedCookies = log[t][j][2]

\* ------------------------------------------------------------ C23
\* the handler serving task t has its message from _process_attendance_sync
Processed(t) == pc[t] = "done" /\ reply[t] = "attendance"

\* the message _process_attendance_sync returned to the handler of task t
ResultMsg(t) == ProcessAttendanceSync(result[t], header[t])

\* the result of task t has header.isSuccessful truthy
IsSuccessful(t) ==
  result[t].payload = "object" /\ header[t].kind = "object" /\ header[t].isSuccessful

\* C23: _process_attendance_sync returns a message containing the completion
\* marker only when the result of request_attendance has header.isSuccessful
\* truthy; a result without a header and an exception give a failure message;
\* so /qr/enter and /qr/leave render a success page only for a successful
\* attendance call.
C23_SuccessOnlyWhenSuccessful ==
  \A t \in Tasks : Processed(t) =>
    /\ ResultMsg(t).template = "success" => IsSuccessful(t)
    /\ (result[t].payload # "object" \/ header[t].kind # "object") =>
         ResultMsg(t).template # "success"
    /\ (route[t] \in {"/qr/enter", "/qr/leave"} /\ QrSuccess(ResultMsg(t))) =>
         IsSuccessful(t)


====
